---- MODULE Spec2Model ----
(***************************************************************************)
(* ZipFileWriter (src/write/mod.rs): write_entry and close over an         *)
(* AsyncWrite sink.  Every `.await` on `self.writer.write(..)` is a step   *)
(* of the model: the sink answers Ok(n) with n <= the bytes offered, or    *)
(* Err.                                                                    *)
(*                                                                         *)
(* usize and u32 values are kept as two limbs (hi * 2^16 + lo) so that     *)
(* lengths and offsets beyond 2^32 can be written down; u16 values are     *)
(* plain integers.  Byte strings are run-length encoded: a head of         *)
(* explicit bytes followed by `fill` zero bytes.                           *)
(***************************************************************************)
EXTENDS Integers, Sequences, FiniteSets, TLC

VARIABLES
    writer,      \* the sink W behind `writer: &mut W`: the write calls it has answered
    cd_entries,  \* ZipFileWriter::cd_entries
    written,     \* ZipFileWriter::written
    pc,          \* position of the single task driving the writer
    entry,       \* locals of the write_entry call in flight (opts, data, headers)
    cl,          \* locals of the close call in flight (cd_offset, cd_size, loop index)
    calls,       \* the calls made so far and what each returned
    faults       \* steps so far off the clean run: short Ok(n), Err, dropped future, panic

vars == <<writer, cd_entries, written, pc, entry, cl, calls, faults>>

----------------------------------------------------------------------------
(* Bounds *)

MaxCalls == 2
MaxFaults == 1

----------------------------------------------------------------------------
(* Integer widths *)

U16 == 2^16

\* a usize or u32 value hi * 2^16 + lo
W(n) == [hi |-> n \div U16, lo |-> n % U16]
WAdd(a, b) ==
    [hi |-> a.hi + b.hi + (a.lo + b.lo) \div U16, lo |-> (a.lo + b.lo) % U16]
\* a - b, for b <= a
WSub(a, b) ==
    IF a.lo >= b.lo
    THEN [hi |-> a.hi - b.hi, lo |-> a.lo - b.lo]
    ELSE [hi |-> a.hi - b.hi - 1, lo |-> a.lo + U16 - b.lo]

\* `x as u32`, `x as u16`: Rust's truncating casts of a usize
AsU32(x) == [hi |-> x.hi % U16, lo |-> x.lo]
AsU16(x) == x.lo

\* u32 `+=` (wrapping, as in a release build)
AddU32(a, b) == AsU32(WAdd(a, b))

----------------------------------------------------------------------------
(* Byte strings: head \o (fill zero bytes) *)

Bytes(s) == [head |-> s, fill |-> W(0)]
BLen(b) == WAdd(W(Len(b.head)), b.fill)

\* little-endian encoding of v in w bytes
RECURSIVE LE(_, _)
LE(v, w) == IF w = 0 THEN <<>> ELSE <<v % 256>> \o LE(v \div 256, w - 1)
LE32(v) == LE(v.lo, 2) \o LE(v.hi, 2)

\* value of a little-endian byte sequence
RECURSIVE UnLE(_)
UnLE(s) == IF s = <<>> THEN 0 ELSE s[1] + 256 * UnLE(Tail(s))

\* the u16 / u32 field at byte offset off of an encoded record
Field16(s, off) == UnLE(SubSeq(s, off + 1, off + 2))
Field32(s, off) == [hi |-> Field16(s, off + 2), lo |-> Field16(s, off)]

----------------------------------------------------------------------------
(* crate::delim, crate::header, crate::Compression: record signatures and  *)
(* fixed little-endian layouts (local header 26 bytes, central directory   *)
(* header 42 bytes, end of central directory 18 bytes)                     *)

LFHD == W(67324752)       \* 0x04034b50
CDFHD == W(33639248)      \* 0x02014b50
EOCDD == W(101010256)     \* 0x06054b50

to_u16(compression) ==
    CASE compression = "Stored" -> 0
      [] compression = "Deflate" -> 8
      [] compression = "Bz" -> 12
      [] compression = "Lzma" -> 14
      [] compression = "Zstd" -> 93
      [] compression = "Xz" -> 95

\* GeneralPurposeFlag as the u16 of the record: bit 0 encrypted, bit 3 data descriptor
FlagBits(flags) ==
    (IF flags.encrypted THEN 1 ELSE 0) + (IF flags.data_descriptor THEN 8 ELSE 0)

\* LocalFileHeader::to_slice
LocalFileHeaderSlice(h) ==
    LE(h.version, 2) \o LE(FlagBits(h.flags), 2) \o LE(h.compression, 2)
      \o LE(h.mod_time, 2) \o LE(h.mod_date, 2) \o LE32(h.crc)
      \o LE32(h.compressed_size) \o LE32(h.uncompressed_size)
      \o LE(h.file_name_length, 2) \o LE(h.extra_field_length, 2)

\* CentralDirectoryHeader::to_slice
CentralDirectoryHeaderSlice(h) ==
    LE(h.v_made_by, 2) \o LE(h.v_needed, 2) \o LE(FlagBits(h.flags), 2)
      \o LE(h.compression, 2) \o LE(h.mod_time, 2) \o LE(h.mod_date, 2)
      \o LE32(h.crc) \o LE32(h.compressed_size) \o LE32(h.uncompressed_size)
      \o LE(h.file_name_length, 2) \o LE(h.extra_field_length, 2)
      \o LE(h.file_comment_length, 2) \o LE(h.disk_start, 2) \o LE(h.inter_attr, 2)
      \o LE32(h.exter_attr) \o LE32(h.lh_offset)

\* EndOfCentralDirectoryHeader::to_slice
EndOfCentralDirectoryHeaderSlice(h) ==
    LE(h.disk_num, 2) \o LE(h.start_cent_dir_disk, 2) \o LE(h.num_of_entries_disk, 2)
      \o LE(h.num_of_entries, 2) \o LE32(h.size_cent_dir) \o LE32(h.cent_dir_offset)
      \o LE(h.file_comm_length, 2)

----------------------------------------------------------------------------
(* compute_crc and compress.  crc32fast and the async_compression encoders *)
(* are outside the repository: the checksum is a position-weighted sum of  *)
(* the bytes and the run length, an encoder emits a method byte, the       *)
(* explicit bytes and the length of the zero run.                          *)

RECURSIVE WeightedSum(_, _)
WeightedSum(s, i) ==
    IF i > Len(s) THEN 0 ELSE (i * 31 + 7) * (s[i] + 1) + WeightedSum(s, i + 1)

Hasher(data) ==
    [hi |-> (WeightedSum(data.head, 1) + 13 * data.fill.hi) % U16,
     lo |-> (3 * WeightedSum(data.head, 1) + 5 * data.fill.lo + data.fill.hi) % U16]

compute_crc(data) == Hasher(data)

Encoder(compression, data) ==
    Bytes(<<to_u16(compression)>> \o data.head
            \o (IF data.fill = W(0) THEN <<>> ELSE LE32(data.fill)))

compress(compression, data) == Encoder(compression, data)

----------------------------------------------------------------------------
(* Inputs of write_entry *)

\* a String of 2^16 bytes and a payload of 2^32 + 2 bytes
LongName == [head |-> <<97>>, fill |-> W(U16 - 1)]
HugeData == [head |-> <<104, 105>>, fill |-> [hi |-> U16, lo |-> 0]]

EntryOptions(filename, extra, comment, compression) ==
    [filename |-> filename, extra |-> extra, comment |-> comment,
     compression |-> compression]

\* crate::utils::chrono_to_zip_time(&Utc::now()) at the call: (mod_time, mod_date)
ZipTimes == <<(<<24608, 21862>>), (<<24609, 21862>>)>>

\* (opts, raw_data) offered to write_entry, and the clock it reads
Inputs ==
    { [opts |-> EntryOptions(Bytes(<<97>>), Bytes(<<>>), Bytes(<<>>), "Stored"),
       raw_data |-> Bytes(<<104, 105>>), now |-> ZipTimes[1]],
      [opts |-> EntryOptions(Bytes(<<98, 98>>), Bytes(<<1, 2>>), Bytes(<<99>>), "Deflate"),
       raw_data |-> Bytes(<<104, 105>>), now |-> ZipTimes[2]],
      [opts |-> EntryOptions(LongName, Bytes(<<>>), Bytes(<<99>>), "Stored"),
       raw_data |-> HugeData, now |-> ZipTimes[2]] }

----------------------------------------------------------------------------
(* The sink *)

\* what AsyncWrite::write may answer with Ok for a buffer of len bytes:
\* all of it, or fewer
Accepts(len) == {len} \cup (IF len = W(0) THEN {} ELSE {WSub(len, W(1))})

WriteCall(part, buf, ok, n) == [part |-> part, buf |-> buf, ok |-> ok, n |-> n]

\* bytes the sink has accepted over the write calls of log
RECURSIVE Accepted(_)
Accepted(log) ==
    IF log = <<>> THEN W(0)
    ELSE WAdd(Accepted(SubSeq(log, 1, Len(log) - 1)), log[Len(log)].n)

----------------------------------------------------------------------------
(* ZipFileWriter::new *)

Init ==
    /\ writer = <<>>
    /\ cd_entries = <<>>
    /\ written = W(0)
    /\ pc = "idle"
    /\ entry = <<>>
    /\ cl = <<>>
    /\ calls = <<>>
    /\ faults = 0

Returned(ret) == [calls EXCEPT ![Len(calls)].ret = ret]

----------------------------------------------------------------------------
(* ZipFileWriter::write_entry *)

compressed_data(opts, raw_data) ==
    IF opts.compression = "Stored" THEN raw_data ELSE compress(opts.compression, raw_data)

\* lf_header with the checksum taken over the bytes that go to the sink
lf_header_crc_of_compressed(opts, raw_data, now) ==
    [compressed_size |-> AsU32(BLen(compressed_data(opts, raw_data))),
     uncompressed_size |-> AsU32(BLen(raw_data)),
     compression |-> to_u16(opts.compression),
     crc |-> compute_crc(compressed_data(opts, raw_data)),
     extra_field_length |-> AsU16(BLen(opts.extra)),
     file_name_length |-> AsU16(BLen(opts.filename)),
     mod_time |-> now[1],
     mod_date |-> now[2],
     version |-> 0,
     flags |-> [data_descriptor |-> FALSE, encrypted |-> FALSE]]

lf_header(opts, raw_data, now) ==
    [compressed_size |-> AsU32(BLen(compressed_data(opts, raw_data))),
     uncompressed_size |-> AsU32(BLen(raw_data)),
     compression |-> to_u16(opts.compression),
     crc |-> compute_crc(raw_data),
     extra_field_length |-> AsU16(BLen(opts.extra)),
     file_name_length |-> AsU16(BLen(opts.filename)),
     mod_time |-> now[1],
     mod_date |-> now[2],
     version |-> 0,
     flags |-> [data_descriptor |-> FALSE, encrypted |-> FALSE]]

\* header taking compressed_size from the uncompressed length
header_raw_size(lf, opts, offset) ==
    [v_made_by |-> 0,
     v_needed |-> 0,
     compressed_size |-> lf.uncompressed_size,
     uncompressed_size |-> lf.uncompressed_size,
     compression |-> lf.compression,
     crc |-> lf.crc,
     extra_field_length |-> lf.extra_field_length,
     file_name_length |-> lf.file_name_length,
     file_comment_length |-> AsU16(BLen(opts.comment)),
     mod_time |-> lf.mod_time,
     mod_date |-> lf.mod_date,
     flags |-> lf.flags,
     disk_start |-> 0,
     inter_attr |-> 0,
     exter_attr |-> W(0),
     lh_offset |-> AsU32(offset)]

header(lf, opts, offset) ==
    [v_made_by |-> 0,
     v_needed |-> 0,
     compressed_size |-> lf.compressed_size,
     uncompressed_size |-> lf.uncompressed_size,
     compression |-> lf.compression,
     crc |-> lf.crc,
     extra_field_length |-> lf.extra_field_length,
     file_name_length |-> lf.file_name_length,
     file_comment_length |-> AsU16(BLen(opts.comment)),
     mod_time |-> lf.mod_time,
     mod_date |-> lf.mod_date,
     flags |-> lf.flags,
     disk_start |-> 0,
     inter_attr |-> 0,
     exter_attr |-> W(0),
     lh_offset |-> AsU32(offset)]

\* lines 41-82: the call up to its first write
write_entry(in) ==
    /\ pc = "idle"
    /\ Len(SelectSeq(calls, LAMBDA c : c.op = "write_entry")) < MaxCalls
    /\ LET lf == lf_header(in.opts, in.raw_data, in.now) IN
       entry' = [opts |-> in.opts,
                 raw_data |-> in.raw_data,
                 compressed_data |-> compressed_data(in.opts, in.raw_data),
                 lf_header |-> lf,
                 header |-> header(lf, in.opts, written)]
    /\ calls' = Append(calls, [op |-> "write_entry", opts |-> in.opts,
                               raw_data |-> in.raw_data, at |-> Len(writer),
                               ret |-> "Pending"])
    /\ pc' = "we_LFHD"
    /\ UNCHANGED <<writer, cd_entries, written, cl, faults>>

\* write_entry_panic with the signature written before the payload is compressed
write_entry_panic_late(in) ==
    /\ pc = "idle"
    /\ Len(SelectSeq(calls, LAMBDA c : c.op = "write_entry")) < MaxCalls
    /\ in.opts.compression # "Stored"
    /\ faults < MaxFaults
    /\ faults' = faults + 1
    /\ writer' = Append(writer, WriteCall("we_LFHD", Bytes(LE32(LFHD)), TRUE, W(4)))
    /\ written' = WAdd(written, W(4))
    /\ calls' = Append(calls, [op |-> "write_entry", opts |-> in.opts,
                               raw_data |-> in.raw_data, at |-> Len(writer),
                               ret |-> "Panicked"])
    /\ UNCHANGED <<cd_entries, pc, entry, cl>>

\* lines 45 and 137-163: an encoder answers Err and `unwrap()` panics.  The
\* unwinding leaves the call before its first write; a caller that catches
\* it still holds the writer.
write_entry_panic(in) ==
    /\ pc = "idle"
    /\ Len(SelectSeq(calls, LAMBDA c : c.op = "write_entry")) < MaxCalls
    /\ in.opts.compression # "Stored"
    /\ faults < MaxFaults
    /\ faults' = faults + 1
    /\ calls' = Append(calls, [op |-> "write_entry", opts |-> in.opts,
                               raw_data |-> in.raw_data, at |-> Len(writer),
                               ret |-> "Panicked"])
    /\ UNCHANGED <<writer, cd_entries, written, pc, entry, cl>>

\* lines 95-97: `unimplemented!()` panics whatever _opts is
stream_write_entry ==
    /\ pc = "idle"
    /\ faults < MaxFaults
    /\ faults' = faults + 1
    /\ calls' = Append(calls, [op |-> "stream_write_entry", at |-> Len(writer),
                               ret |-> "Panicked"])
    /\ UNCHANGED <<writer, cd_entries, written, pc, entry, cl>>

EntryParts == <<"we_LFHD", "we_lf_header", "we_filename", "we_extra", "we_data">>
InEntry == \E i \in 1..5 : pc = EntryParts[i]
EntryIndex == CHOOSE i \in 1..5 : pc = EntryParts[i]

\* the buffer of the write at lines 84..88 the call is at
EntryBuf ==
    CASE pc = "we_LFHD" -> Bytes(LE32(LFHD))
      [] pc = "we_lf_header" -> Bytes(LocalFileHeaderSlice(entry.lf_header))
      [] pc = "we_filename" -> entry.opts.filename
      [] pc = "we_extra" -> entry.opts.extra
      [] pc = "we_data" -> entry.compressed_data

\* line 90
\* PushEntry putting the new entry in front of the list
PushEntry_front == <<[header |-> entry.header, opts |-> entry.opts]>> \o cd_entries

PushEntry == Append(cd_entries, [header |-> entry.header, opts |-> entry.opts])

\* EntryAccept counting the bytes offered instead of the bytes accepted
EntryAccept_offered(n) ==
    /\ IF n = BLen(EntryBuf) THEN faults' = faults
       ELSE faults < MaxFaults /\ faults' = faults + 1
    /\ writer' = Append(writer, WriteCall(pc, EntryBuf, TRUE, n))
    /\ written' = WAdd(written, BLen(EntryBuf))
    /\ IF pc = "we_data"
       THEN /\ cd_entries' = PushEntry
            /\ calls' = Returned("Ok")
            /\ pc' = "idle"
            /\ entry' = <<>>
       ELSE /\ pc' = EntryParts[EntryIndex + 1]
            /\ UNCHANGED <<cd_entries, calls, entry>>
    /\ UNCHANGED cl

\* `self.written += self.writer.write(buf).await?` answered Ok(n)
EntryAccept(n) ==
    /\ IF n = BLen(EntryBuf) THEN faults' = faults
       ELSE faults < MaxFaults /\ faults' = faults + 1
    /\ writer' = Append(writer, WriteCall(pc, EntryBuf, TRUE, n))
    /\ written' = WAdd(written, n)
    /\ IF pc = "we_data"
       THEN /\ cd_entries' = PushEntry
            /\ calls' = Returned("Ok")
            /\ pc' = "idle"
            /\ entry' = <<>>
       ELSE /\ pc' = EntryParts[EntryIndex + 1]
            /\ UNCHANGED <<cd_entries, calls, entry>>
    /\ UNCHANGED cl

EntryWriteOk ==
    /\ InEntry
    /\ \E n \in Accepts(BLen(EntryBuf)) : EntryAccept(n)

\* EntryWriteErr without the `?`: the error is dropped and the call goes on
EntryWriteErr_swallow ==
    /\ InEntry
    /\ faults < MaxFaults
    /\ faults' = faults + 1
    /\ writer' = Append(writer, WriteCall(pc, EntryBuf, FALSE, W(0)))
    /\ IF pc = "we_data"
       THEN /\ cd_entries' = PushEntry
            /\ calls' = Returned("Ok")
            /\ pc' = "idle"
            /\ entry' = <<>>
       ELSE /\ pc' = EntryParts[EntryIndex + 1]
            /\ UNCHANGED <<cd_entries, calls, entry>>
    /\ UNCHANGED <<written, cl>>

\* the write answered Err: `?` returns it
EntryWriteErr ==
    /\ InEntry
    /\ faults < MaxFaults
    /\ faults' = faults + 1
    /\ writer' = Append(writer, WriteCall(pc, EntryBuf, FALSE, W(0)))
    /\ calls' = Returned("Err")
    /\ pc' = "idle"
    /\ entry' = <<>>
    /\ UNCHANGED <<cd_entries, written, cl>>

\* the caller drops the write_entry future at a pending write
\* EntryDrop taking written back to its value at the start of the call
EntryDrop_rollback ==
    /\ InEntry
    /\ faults < MaxFaults
    /\ faults' = faults + 1
    /\ calls' = Returned("Dropped")
    /\ pc' = "idle"
    /\ entry' = <<>>
    /\ written' = entry.header.lh_offset
    /\ UNCHANGED <<writer, cd_entries, cl>>

EntryDrop ==
    /\ InEntry
    /\ faults < MaxFaults
    /\ faults' = faults + 1
    /\ calls' = Returned("Dropped")
    /\ pc' = "idle"
    /\ entry' = <<>>
    /\ UNCHANGED <<writer, cd_entries, written, cl>>

----------------------------------------------------------------------------
(* ZipFileWriter::close *)

\* lines 100-101 and the entry of the loop
close ==
    /\ pc = "idle"
    /\ cl' = [cd_offset |-> written, cd_size |-> W(0), i |-> 1]
    /\ calls' = Append(calls, [op |-> "close", at |-> Len(writer), ret |-> "Pending"])
    /\ pc' = IF cd_entries = <<>> THEN "cl_EOCDD" ELSE "cl_CDFHD"
    /\ UNCHANGED <<writer, cd_entries, written, entry, faults>>

CloseParts ==
    <<"cl_CDFHD", "cl_header", "cl_filename", "cl_extra", "cl_comment",
      "cl_EOCDD", "cl_eocd_header">>
InClose == \E i \in 1..7 : pc = CloseParts[i]

\* lines 114-122
eocd_header(n_entries, cd_size, cd_offset) ==
    [disk_num |-> 0,
     start_cent_dir_disk |-> 0,
     num_of_entries_disk |-> AsU16(n_entries),
     num_of_entries |-> AsU16(n_entries),
     size_cent_dir |-> cd_size,
     cent_dir_offset |-> AsU32(cd_offset),
     file_comm_length |-> 0]

\* cd_entry walking the list from its end
cd_entry_rev(i) == cd_entries[Len(cd_entries) + 1 - i]

\* `for entry in &self.cd_entries`: the entry of the i-th iteration
cd_entry(i) == cd_entries[i]

\* the buffer of the write at lines 104..108, 124, 125 the call is at
CloseBuf ==
    CASE pc = "cl_CDFHD" -> Bytes(LE32(CDFHD))
      [] pc = "cl_header" -> Bytes(CentralDirectoryHeaderSlice(cd_entry(cl.i).header))
      [] pc = "cl_filename" -> cd_entry(cl.i).opts.filename
      [] pc = "cl_extra" -> cd_entry(cl.i).opts.extra
      [] pc = "cl_comment" -> cd_entry(cl.i).opts.comment
      [] pc = "cl_EOCDD" -> Bytes(LE32(EOCDD))
      [] pc = "cl_eocd_header" ->
            Bytes(EndOfCentralDirectoryHeaderSlice(
                    eocd_header(W(Len(cd_entries)), cl.cd_size, cl.cd_offset)))

\* lines 110-111
cd_size_next(cd_size, opts) ==
    AddU32(AddU32(cd_size, AddU32(W(4 + 42), AsU32(BLen(opts.filename)))),
           AsU32(WAdd(BLen(opts.extra), BLen(opts.comment))))

\* `self.writer.write(buf).await?` answered Ok(n): n is not looked at
CloseAccept(n) ==
    /\ IF n = BLen(CloseBuf) THEN faults' = faults
       ELSE faults < MaxFaults /\ faults' = faults + 1
    /\ writer' = Append(writer, WriteCall(pc, CloseBuf, TRUE, n))
    /\ CASE pc \in {"cl_CDFHD", "cl_header", "cl_filename", "cl_extra"} ->
              /\ pc' = CloseParts[(CHOOSE i \in 1..7 : pc = CloseParts[i]) + 1]
              /\ UNCHANGED <<cl, calls>>
         [] pc = "cl_comment" ->
              /\ cl' = [cl EXCEPT !.cd_size = cd_size_next(@, cd_entry(cl.i).opts),
                                  !.i = @ + 1]
              /\ pc' = IF cl.i < Len(cd_entries) THEN "cl_CDFHD" ELSE "cl_EOCDD"
              /\ UNCHANGED calls
         [] pc = "cl_EOCDD" ->
              /\ pc' = "cl_eocd_header"
              /\ UNCHANGED <<cl, calls>>
         [] pc = "cl_eocd_header" ->
              /\ pc' = "closed"
              /\ calls' = Returned("Ok")
              /\ UNCHANGED cl
    /\ UNCHANGED <<cd_entries, written, entry>>

CloseWriteOk ==
    /\ InClose
    /\ \E n \in Accepts(BLen(CloseBuf)) : CloseAccept(n)

\* the write answered Err: `?` returns it; the writer was consumed
CloseWriteErr ==
    /\ InClose
    /\ faults < MaxFaults
    /\ faults' = faults + 1
    /\ writer' = Append(writer, WriteCall(pc, CloseBuf, FALSE, W(0)))
    /\ calls' = Returned("Err")
    /\ pc' = "closed"
    /\ UNCHANGED <<cd_entries, written, entry, cl>>

\* the caller drops the close future at a pending write
CloseDrop ==
    /\ InClose
    /\ faults < MaxFaults
    /\ faults' = faults + 1
    /\ calls' = Returned("Dropped")
    /\ pc' = "closed"
    /\ UNCHANGED <<writer, cd_entries, written, entry, cl>>

----------------------------------------------------------------------------

Next ==
    \/ \E in \in Inputs : write_entry(in)
    \/ \E in \in Inputs : write_entry_panic(in)
    \/ stream_write_entry
    \/ EntryWriteOk
    \/ EntryWriteErr
    \/ EntryDrop
    \/ close
    \/ CloseWriteOk
    \/ CloseWriteErr
    \/ CloseDrop

Spec == Init /\ [][Next]_vars

----------------------------------------------------------------------------
(* Reading the history *)

IsEntryCall(c) == c.op = "write_entry"
IsOk(c) == c.op = "write_entry" /\ c.ret = "Ok"

\* the write_entry calls that returned Ok, in call order
OkCalls == SelectSeq(calls, IsOk)

\* the sink's write calls made by the j-th call
WritesOf(j) ==
    SubSeq(writer, calls[j].at + 1,
           IF j < Len(calls) THEN calls[j + 1].at ELSE Len(writer))

\* bytes the sink had accepted when call c started
SinkBefore(c) == Accepted(SubSeq(writer, 1, c.at))

CloseStarted == calls # <<>> /\ calls[Len(calls)].op = "close"
CloseOk == CloseStarted /\ calls[Len(calls)].ret = "Ok"
CloseWrites == IF CloseStarted THEN WritesOf(Len(calls)) ELSE <<>>

IsShort(w) == w.ok /\ w.n # BLen(w.buf)

----------------------------------------------------------------------------
(* C1 *)

\* C1: the lh_offset kept for the k-th completed entry is the number of
\* bytes the sink had accepted just before that entry's signature was
\* written.
C1_LhOffsetIsSinkOffset ==
    \A k \in 1..Len(cd_entries) :
        cd_entries[k].header.lh_offset = SinkBefore(OkCalls[k])

----------------------------------------------------------------------------
(* C2 *)

\* C2: when close returns Ok, the end-of-central-directory record carries
\* the sink offset at the start of close and the number of bytes the sink
\* accepted for the central directory records.
C2_EocdOffsetAndSize ==
    CloseOk =>
        LET ws == CloseWrites
            eocd == ws[Len(ws)].buf.head
        IN  /\ Field32(eocd, 12) = SinkBefore(calls[Len(calls)])
            /\ Field32(eocd, 8) = Accepted(SubSeq(ws, 1, Len(ws) - 2))

----------------------------------------------------------------------------
(* C3 *)

\* the five buffers of a complete local entry for call c
EntryBufs(c, lfh) ==
    <<Bytes(LE32(LFHD)), lfh, c.opts.filename, c.opts.extra,
      compressed_data(c.opts, c.raw_data)>>

\* C3: a write_entry that returned Ok has put into the sink, in order and in
\* full, the signature, the 26-byte local header, the filename, the extra
\* field and the compressed payload, and has appended one pending entry.
C3_OkEntryIsComplete ==
    /\ Len(cd_entries) = Len(OkCalls)
    /\ \A j \in 1..Len(calls) :
          IsOk(calls[j]) =>
              LET ws == WritesOf(j) IN
              /\ Len(ws) = 5
              /\ Len(ws[2].buf.head) = 26
              /\ \A i \in 1..5 :
                    /\ ws[i].part = EntryParts[i]
                    /\ ws[i].buf = EntryBufs(calls[j], ws[2].buf)[i]
                    /\ ws[i].ok
                    /\ ws[i].n = BLen(ws[i].buf)

----------------------------------------------------------------------------
(* C4 *)

\* C4: until close starts, written is the number of bytes the sink has
\* accepted through this writer.
C4_WrittenIsAccepted ==
    ~CloseStarted => written = Accepted(writer)

\* a call failed after a short write and a later call completed
C4_Witness ==
    /\ ~CloseStarted
    /\ pc = "idle"
    /\ Len(cd_entries) = 1
    /\ \E i \in 1..Len(writer) : IsShort(writer[i])
    /\ written = Accepted(writer)
    /\ written # W(0)

----------------------------------------------------------------------------
(* C5 *)

\* the central directory headers close has offered to the sink, in order
CloseHeaderWrites == SelectSeq(CloseWrites, LAMBDA w : w.part = "cl_header")

\* C5: the crc of every central directory header, as retained and as
\* emitted at close, is the checksum of the entry's uncompressed payload.
C5_CrcOfRawPayload ==
    /\ \A k \in 1..Len(cd_entries) :
          cd_entries[k].header.crc = Hasher(OkCalls[k].raw_data)
    /\ \A k \in 1..Len(CloseHeaderWrites) :
          Field32(CloseHeaderWrites[k].buf.head, 12) = Hasher(OkCalls[k].raw_data)

\* close has emitted the header of a compressed entry whose compressed
\* bytes have another checksum than its payload
C5_Witness ==
    \E k \in 1..Len(CloseHeaderWrites) :
        /\ OkCalls[k].opts.compression # "Stored"
        /\ Hasher(compressed_data(OkCalls[k].opts, OkCalls[k].raw_data))
              # Hasher(OkCalls[k].raw_data)
        /\ Field32(CloseHeaderWrites[k].buf.head, 12) = Hasher(OkCalls[k].raw_data)

----------------------------------------------------------------------------
(* C6 *)

\* C6: for a Stored entry the local header and the central directory header
\* record the payload length as compressed and as uncompressed size, and the
\* payload offered to the sink is the caller's input.
C6_StoredSizesAndBytes ==
    /\ \A j \in 1..Len(calls) :
          (IsEntryCall(calls[j]) /\ calls[j].opts.compression = "Stored") =>
              LET ws == WritesOf(j)
                  len == BLen(calls[j].raw_data)
              IN  /\ Len(ws) >= 2 =>
                        /\ Field32(ws[2].buf.head, 14) = len
                        /\ Field32(ws[2].buf.head, 18) = len
                  /\ Len(ws) >= 5 => ws[5].buf = calls[j].raw_data
    /\ \A k \in 1..Len(cd_entries) :
          cd_entries[k].opts.compression = "Stored" =>
              /\ cd_entries[k].header.compressed_size = BLen(OkCalls[k].raw_data)
              /\ cd_entries[k].header.uncompressed_size = BLen(OkCalls[k].raw_data)

----------------------------------------------------------------------------
(* C7 *)

\* call j names a file that a pending entry already names
IsDuplicate(j) ==
    /\ IsEntryCall(calls[j])
    /\ \E i \in 1..(j - 1) :
          IsOk(calls[i]) /\ calls[i].opts.filename = calls[j].opts.filename

\* C7: a write_entry whose filename is already pending does not return Ok
\* and writes nothing, so no two pending entries share a filename.
C7_DuplicateRejected ==
    /\ \A j \in 1..Len(calls) :
          IsDuplicate(j) => (calls[j].ret # "Ok" /\ WritesOf(j) = <<>>)
    /\ \A k1, k2 \in 1..Len(cd_entries) :
          k1 # k2 => cd_entries[k1].opts.filename # cd_entries[k2].opts.filename

----------------------------------------------------------------------------
(* C8 *)

FitsU16(x) == x.hi = 0
FitsU32(x) == x.hi < U16

\* every value the records of call c carry fits its field
EntryFits(c) ==
    /\ FitsU16(BLen(c.opts.filename))
    /\ FitsU16(BLen(c.opts.extra))
    /\ FitsU16(BLen(c.opts.comment))
    /\ FitsU32(BLen(compressed_data(c.opts, c.raw_data)))
    /\ FitsU32(BLen(c.raw_data))
    /\ FitsU32(SinkBefore(c))

\* C8: a call with a value too wide for its field writes nothing and does
\* not return Ok, and no local header is emitted with a length other than
\* the true one.
C8_OversizeRejected ==
    \A j \in 1..Len(calls) :
        /\ (IsEntryCall(calls[j]) /\ ~EntryFits(calls[j])) =>
              (calls[j].ret # "Ok" /\ WritesOf(j) = <<>>)
        /\ (IsEntryCall(calls[j]) /\ Len(WritesOf(j)) >= 2) =>
              LET lfh == WritesOf(j)[2].buf.head IN
              /\ W(Field16(lfh, 22)) = BLen(calls[j].opts.filename)
              /\ W(Field16(lfh, 24)) = BLen(calls[j].opts.extra)
              /\ Field32(lfh, 14) = BLen(compressed_data(calls[j].opts, calls[j].raw_data))
              /\ Field32(lfh, 18) = BLen(calls[j].raw_data)
        /\ (calls[j].op = "close" /\ ~FitsU32(SinkBefore(calls[j]))) =>
              WritesOf(j) = <<>>

----------------------------------------------------------------------------
(* C9 *)

\* C9: the writes of close are, in order, the five parts of the record of
\* each pending entry in the order the entries were completed, then the
\* end-of-central-directory signature and record; a close that returns Ok
\* has made all of them, the end-of-central-directory record last and once.
C9_CloseOrder ==
    CloseStarted =>
        LET ws == CloseWrites
            n == Len(OkCalls)
        IN  /\ Len(ws) <= 5 * n + 2
            /\ CloseOk => Len(ws) = 5 * n + 2
            /\ pc = "closed" => Len(writer) = calls[Len(calls)].at + Len(ws)
            /\ \A t \in 1..Len(ws) :
                  LET i == ((t - 1) \div 5) + 1
                      p == ((t - 1) % 5) + 1
                      c == OkCalls[i]
                  IN  IF t <= 5 * n
                      THEN /\ ws[t].part = CloseParts[p]
                           /\ p = 1 => ws[t].buf = Bytes(LE32(CDFHD))
                           /\ p = 2 =>
                                 /\ Len(ws[t].buf.head) = 42
                                 /\ ws[t].buf.fill = W(0)
                                 /\ Field32(ws[t].buf.head, 38) = AsU32(SinkBefore(c))
                                 /\ Field32(ws[t].buf.head, 12) = Hasher(c.raw_data)
                           /\ p = 3 => ws[t].buf = c.opts.filename
                           /\ p = 4 => ws[t].buf = c.opts.extra
                           /\ p = 5 => ws[t].buf = c.opts.comment
                      ELSE /\ ws[t].part = CloseParts[t - 5 * n + 5]
                           /\ t = 5 * n + 1 => ws[t].buf = Bytes(LE32(EOCDD))
                           /\ t = 5 * n + 2 => Len(ws[t].buf.head) = 18

\* close returned Ok over two entries with different names and offsets
C9_Witness ==
    /\ CloseOk
    /\ Len(cd_entries) = 2
    /\ cd_entries[1].opts.filename # cd_entries[2].opts.filename
    /\ Len(CloseWrites) = 12
    /\ CloseWrites[12].part = "cl_eocd_header"

----------------------------------------------------------------------------
(* The end-of-central-directory record (lines 114-125) as a function of    *)
(* what close holds when its loop is over: self.cd_entries.len(), cd_size  *)
(* and cd_offset.  A list of 2^16 entries is 2^16 calls of write_entry     *)
(* away from Init, so the three values are drawn here instead of being     *)
(* reached: `cl` holds them, `entry` the record built from them.           *)

EocdCounts == {0, 1, 2, 3, U16 - 1, U16, U16 + 1}
EocdSizes == {W(0), W(47), W(96)}
EocdOffsets == {W(0), W(33), W(66), [hi |-> U16, lo |-> 35]}

EocdInit ==
    /\ cl \in [n_entries : EocdCounts, cd_size : EocdSizes, cd_offset : EocdOffsets]
    /\ pc = "cl_EOCDD"
    /\ writer = <<>>
    /\ cd_entries = <<>>
    /\ written = cl.cd_offset
    /\ entry = <<>>
    /\ calls = <<>>
    /\ faults = 0

\* lines 114-122 and the signature write of line 124
EocdBuild ==
    /\ pc = "cl_EOCDD"
    /\ entry' = eocd_header(W(cl.n_entries), cl.cd_size, cl.cd_offset)
    /\ writer' = Append(writer, WriteCall(pc, Bytes(LE32(EOCDD)), TRUE, W(4)))
    /\ pc' = "cl_eocd_header"
    /\ UNCHANGED <<cd_entries, written, cl, calls, faults>>

\* line 125
EocdWrite ==
    /\ pc = "cl_eocd_header"
    /\ writer' = Append(writer, WriteCall(pc, Bytes(EndOfCentralDirectoryHeaderSlice(entry)),
                                          TRUE, W(18)))
    /\ pc' = "closed"
    /\ UNCHANGED <<cd_entries, written, entry, cl, calls, faults>>

EocdNext == EocdBuild \/ EocdWrite

SpecEocd == EocdInit /\ [][EocdNext]_vars

----------------------------------------------------------------------------
(* C10 *)

\* the pending entries are the calls that returned Ok, and the record close
\* emits counts them (checked under Spec, where lists stay short)
C10_PendingCount ==
    /\ Len(cd_entries) = Len(OkCalls)
    /\ CloseOk =>
          LET eocd == CloseWrites[Len(CloseWrites)].buf.head IN
          /\ Field16(eocd, 4) = Len(cd_entries)
          /\ Field16(eocd, 6) = Len(cd_entries)
          /\ Len(CloseHeaderWrites) = Len(cd_entries)

\* C10: the end-of-central-directory record holds, in num_of_entries_disk
\* and in num_of_entries, the number of pending entries (under SpecEocd,
\* cl.n_entries is that number).
C10_EocdEntryCount ==
    pc = "closed" =>
        LET eocd == writer[Len(writer)].buf.head IN
        /\ Field16(eocd, 4) = Field16(eocd, 6)
        /\ Field16(eocd, 6) = cl.n_entries

----------------------------------------------------------------------------
(* C11 *)

\* C11: a write the sink answers with Err is the last write of its call,
\* the call returns Err, a call returns Err only so, and a write_entry that
\* returned Err has left no pending entry.
C11_ErrReturnsAtOnce ==
    /\ Len(cd_entries) = Len(OkCalls)
    /\ \A j \in 1..Len(calls) :
          LET ws == WritesOf(j) IN
          /\ \A t \in 1..Len(ws) :
                ~ws[t].ok => (t = Len(ws) /\ calls[j].ret = "Err")
          /\ calls[j].ret = "Err" => (ws # <<>> /\ ~ws[Len(ws)].ok)

\* a write_entry failed at its third write and the writer was used again
C11_Witness ==
    \E j \in 1..Len(calls) :
        /\ IsEntryCall(calls[j])
        /\ calls[j].ret = "Err"
        /\ Len(WritesOf(j)) = 3
        /\ j < Len(calls)
        /\ Len(writer) > calls[j].at + 3

----------------------------------------------------------------------------
(* C12 *)

IsOpening(c) == c.op \in {"write_entry", "stream_write_entry"}

\* a streaming entry was opened before call j; the writer has no operation
\* that finishes one, so it is still open
StreamOpenBefore(j) ==
    \E i \in 1..(j - 1) : calls[i].op = "stream_write_entry"

\* C12: a call that opens an entry while a streaming entry is open gets an
\* error back (it neither succeeds nor panics) and writes nothing.
C12_SecondOpenRejected ==
    \A j \in 1..Len(calls) :
        (IsOpening(calls[j]) /\ StreamOpenBefore(j)) =>
            (calls[j].ret \in {"Pending", "Err"} /\ WritesOf(j) = <<>>)

----------------------------------------------------------------------------
(* C13 *)

\* C13: a stream_write_entry call has written the signature and a local
\* header with the data-descriptor flag set and zero crc and sizes.
C13_StreamHeaderDeferred ==
    \A j \in 1..Len(calls) :
        calls[j].op = "stream_write_entry" =>
            LET ws == WritesOf(j) IN
            /\ Len(ws) >= 2
            /\ ws[1].buf = Bytes(LE32(LFHD))
            /\ (Field16(ws[2].buf.head, 2) \div 8) % 2 = 1
            /\ Field32(ws[2].buf.head, 10) = W(0)
            /\ Field32(ws[2].buf.head, 14) = W(0)
            /\ Field32(ws[2].buf.head, 18) = W(0)

----------------------------------------------------------------------------
(* C14 *)

\* the step is a write_entry call ending in the encoder's panic
IsCompressPanic ==
    /\ Len(calls') = Len(calls) + 1
    /\ calls'[Len(calls')].op = "write_entry"
    /\ calls'[Len(calls')].ret = "Panicked"

\* while a call is at one of its writes, the compressed payload and the
\* checksum it works with are the final ones
CompressedBeforeWrites ==
    InEntry =>
        LET c == calls[Len(calls)] IN
        /\ entry.compressed_data = compressed_data(c.opts, c.raw_data)
        /\ entry.lf_header.crc = Hasher(c.raw_data)
        /\ entry.lf_header.compressed_size =
              AsU32(BLen(compressed_data(c.opts, c.raw_data)))

\* a call whose compression failed has made no write
PanickedWroteNothing ==
    \A j \in 1..Len(calls) :
        (IsEntryCall(calls[j]) /\ calls[j].ret = "Panicked") => WritesOf(j) = <<>>

\* C14: compression and checksum are complete before the first write of
\* write_entry, and a call whose compression fails offers nothing to the
\* sink and changes neither written nor the pending list.
C14_CompressBeforeWrite ==
    /\ [](CompressedBeforeWrites /\ PanickedWroteNothing)
    /\ [][IsCompressPanic =>
            (writer' = writer /\ written' = written /\ cd_entries' = cd_entries)]_vars

\* after a completed entry, the compression of a second one failed
C14_Witness ==
    /\ Len(calls) = 2
    /\ IsOk(calls[1])
    /\ calls[2].op = "write_entry"
    /\ calls[2].ret = "Panicked"
    /\ calls[2].opts.compression # "Stored"
    /\ Len(cd_entries) = 1
    /\ written = Accepted(writer)

----------------------------------------------------------------------------
(* C15 *)

\* the number of calls among the first j that returned Ok
OkRank(j) == Len(SelectSeq(SubSeq(calls, 1, j), IsOk))

\* the local file header the j-th call offered to the sink (its second write)
LocalHeaderOf(j) == WritesOf(j)[2].buf.head

\* C15: for every call of write_entry that returned Ok, the central
\* directory header retained for it carries the compression method, crc,
\* sizes, name and extra lengths, time, date and flags of the local file
\* header the call offered to the sink; the data-descriptor bit is clear in both.
C15_HeadersAgree ==
    \A j \in 1..Len(calls) :
        (IsOk(calls[j]) /\ OkRank(j) <= Len(cd_entries)) =>
            LET lfh == LocalHeaderOf(j)
                h == cd_entries[OkRank(j)].header
            IN  /\ WritesOf(j)[2].part = "we_lf_header"
                /\ Len(lfh) = 26
                /\ Field16(lfh, 4) = h.compression
                /\ Field32(lfh, 10) = h.crc
                /\ Field32(lfh, 14) = h.compressed_size
                /\ Field32(lfh, 18) = h.uncompressed_size
                /\ Field16(lfh, 22) = h.file_name_length
                /\ Field16(lfh, 24) = h.extra_field_length
                /\ Field16(lfh, 6) = h.mod_time
                /\ Field16(lfh, 8) = h.mod_date
                /\ Field16(lfh, 2) = FlagBits(h.flags)
                /\ (Field16(lfh, 2) \div 8) % 2 = 0
                /\ ~h.flags.data_descriptor

\* a compressed entry with an extra field completed: its two sizes differ
C15_Witness ==
    \E j \in 1..Len(calls) :
        /\ IsOk(calls[j])
        /\ OkRank(j) <= Len(cd_entries)
        /\ calls[j].opts.compression # "Stored"
        /\ cd_entries[OkRank(j)].header.compressed_size
              # cd_entries[OkRank(j)].header.uncompressed_size
        /\ cd_entries[OkRank(j)].header.extra_field_length = 2
        /\ Field32(LocalHeaderOf(j), 14) # Field32(LocalHeaderOf(j), 18)

----------------------------------------------------------------------------
(* C16 *)

\* the step is the last write of a write_entry call answered Ok: the call returns Ok
IsEntryReturnOk ==
    /\ pc = "we_data"
    /\ Len(calls') = Len(calls)
    /\ calls[Len(calls)].ret = "Pending"
    /\ IsOk(calls'[Len(calls')])

\* C16: every step of write_entry and of close leaves the entries already
\* pending as they are, content and order; only a write_entry call that
\* returns Ok changes the list, by adding its one entry at the end.
C16_AppendOnly ==
    [][\/ cd_entries' = cd_entries
       \/ /\ IsEntryReturnOk
          /\ Len(cd_entries') = Len(cd_entries) + 1
          /\ SubSeq(cd_entries', 1, Len(cd_entries)) = cd_entries
          /\ cd_entries'[Len(cd_entries')] =
                [header |-> entry.header, opts |-> entry.opts]]_vars

\* two different entries are pending and close, started on them, failed at a write
C16_Witness ==
    /\ Len(cd_entries) = 2
    /\ cd_entries[1] # cd_entries[2]
    /\ cd_entries[1].header.lh_offset = W(0)
    /\ CloseStarted
    /\ calls[Len(calls)].ret = "Err"
    /\ Len(CloseWrites) > 5

----------------------------------------------------------------------------
(* C17 *)

IsDropped(c) == c.op = "write_entry" /\ c.ret = "Dropped"

\* the step is the drop of the future of a write_entry call
IsEntryDropStep ==
    /\ InEntry
    /\ Len(calls') = Len(calls)
    /\ IsDropped(calls'[Len(calls')])

\* the central directory close has emitted so far is that of the calls that
\* returned Ok: one header per such call, with its name and its offset
CloseOmitsDropped ==
    LET names == SelectSeq(CloseWrites, LAMBDA w : w.part = "cl_filename") IN
    /\ Len(CloseHeaderWrites) <= Len(OkCalls)
    /\ CloseOk => /\ Len(CloseHeaderWrites) = Len(OkCalls)
                  /\ Len(names) = Len(OkCalls)
    /\ \A k \in 1..Len(CloseHeaderWrites) :
          Field32(CloseHeaderWrites[k].buf.head, 38) = AsU32(SinkBefore(OkCalls[k]))
    /\ \A k \in 1..Len(names) : names[k].buf = OkCalls[k].opts.filename

\* C17: dropping the future of write_entry at any of its five writes takes
\* nothing back: the sink and written stay as the writes so far left them,
\* no pending entry is recorded for the call, and the central directory a
\* later close emits has no record of it.
C17_DropKeepsBytes ==
    /\ [](Len(cd_entries) = Len(OkCalls) /\ CloseOmitsDropped)
    /\ [][IsEntryDropStep =>
            (writer' = writer /\ written' = written /\ cd_entries' = cd_entries)]_vars

\* a call dropped after its signature and header were accepted, then a call
\* that returned Ok, then a close that returned Ok
C17_Witness ==
    /\ Len(calls) = 3
    /\ IsDropped(calls[1])
    /\ Len(WritesOf(1)) = 2
    /\ IsOk(calls[2])
    /\ CloseOk
    /\ Len(cd_entries) = 1
    /\ cd_entries[1].header.lh_offset = W(30)

----------------------------------------------------------------------------
(* C18 *)

\* a <= b on two-limb numbers
WideLeq(a, b) == a.hi < b.hi \/ (a.hi = b.hi /\ a.lo <= b.lo)

\* the end of the region pending entry k describes:
\* lh_offset + 4 + 26 + file_name_length + extra_field_length + compressed_size
RegionEnd(k) ==
    LET h == cd_entries[k].header IN
    WAdd(WAdd(h.lh_offset, W(4 + 26)),
         WAdd(W(h.file_name_length + h.extra_field_length), h.compressed_size))

\* the index in calls of the k-th call that returned Ok
OkCallIndex(k) == CHOOSE j \in 1..Len(calls) : IsOk(calls[j]) /\ OkRank(j) = k

\* C18: the pending entries describe regions of the sink that follow each
\* other in write order without overlap: the end of each is at or before
\* the lh_offset of the next, the end of the last at or before the
\* cent_dir_offset of close, with equality when no call failed in between.
C18_RegionsDisjoint ==
    /\ \A k \in 1..(Len(cd_entries) - 1) :
          /\ WideLeq(RegionEnd(k), cd_entries[k + 1].header.lh_offset)
          /\ OkCallIndex(k + 1) = OkCallIndex(k) + 1 =>
                RegionEnd(k) = cd_entries[k + 1].header.lh_offset
    /\ (CloseStarted /\ cd_entries # <<>>) =>
          /\ WideLeq(RegionEnd(Len(cd_entries)), AsU32(cl.cd_offset))
          /\ IsOk(calls[Len(calls) - 1]) =>
                RegionEnd(Len(cd_entries)) = AsU32(cl.cd_offset)

====
